---- MODULE Spec2Model ----
(***************************************************************************)
(* QualScore reader templates.                                             *)
(*                                                                         *)
(*   scripts/template_pepXMLreader.py : PepXmlReader.read_psms, main       *)
(*   scripts/template_mzML_reader.py  : MzMLReader.read_spectra, main      *)
(*                                                                         *)
(* One run of one of the two command-line programs.  The record source     *)
(* (pyteomics) is lazy: each loop iteration pulls one record, the end of   *)
(* the stream, or a decoder exception.  Python values that can be of       *)
(* several types (str / int / float / None) are tagged records, strings    *)
(* that the code takes apart are sequences of one-character strings.       *)
(* Probabilities are in hundredths.  Progress and timing output is left    *)
(* out: it changes no state.                                               *)
(***************************************************************************)
EXTENDS Integers, Sequences, FiniteSets, TLC

VARIABLES
    program,    \* which script runs: "pepxml" or "mzml"
    files,      \* params.filename / params.files: os.path.isfile of each path
    pc,         \* control position of the process
    exc,        \* exception that left the process uncaught ("none" if none)
    events,     \* error / summary lines printed or logged, in order
    infile,     \* the stream opened by read_psms / read_spectra
    reader,     \* the pepxml.read / mzml.read context manager
    psm,        \* read_psms: the loop variable, the record pulled last
    pulled,     \* number of PSM records the reader has yielded
    rows,       \* read_psms: rows
    psm_number, \* read_psms: psm_number
    n_psms,     \* read_psms: stats['n_psms']
    peptideprophet_probability, \* read_psms local, value after the last record
    iprophet_probability,       \* read_psms local, value after the last record
    out_file,   \* writes of <pepxml_file>.tsv (empty: never created)
    checked,    \* mzML main: paths that passed the first loop
    cur,        \* mzML main: index of the file of the second loop
    opened,     \* mzML: indices of the files opened, in order
    spectrum,   \* read_spectra: the loop variable, the record pulled last
    levels,     \* 'ms level' of the records pulled from the current file
    stats,      \* read_spectra: stats
    charge_state, \* read_spectra local, value after the last record
    precursor_mz, \* read_spectra local, value after the last record
    summaries   \* n_spectra printed by the final line of each finished file

vars == <<program, files, pc, exc, events, infile, reader, psm, pulled, rows,
          psm_number, n_psms, peptideprophet_probability,
          iprophet_probability, out_file, checked, cur, opened, spectrum,
          levels, stats, charge_state, precursor_mz, summaries>>

pepVars == <<psm, pulled, rows, psm_number, n_psms,
             peptideprophet_probability, iprophet_probability, out_file>>

mzVars == <<checked, cur, opened, spectrum, levels, stats, charge_state,
            precursor_mz, summaries>>

----------------------------------------------------------------------------
(* Bounds *)

MaxPsms == 2
MaxResults == 2
MaxFiles == 2
MaxSpectra == 2

----------------------------------------------------------------------------
(* Python values *)

PyNone == [t |-> "none", s |-> <<>>, n |-> 0]
PyStr(str) == [t |-> "str", s |-> str, n |-> 0]
PyInt(i) == [t |-> "int", s |-> <<>>, n |-> i]
PyFloat(h) == [t |-> "float", s |-> <<>>, n |-> h]

Digits == {"0", "1", "2", "3", "4", "5", "6", "7", "8", "9"}

DigitVal(c) ==
    CASE c = "0" -> 0 [] c = "1" -> 1 [] c = "2" -> 2 [] c = "3" -> 3
      [] c = "4" -> 4 [] c = "5" -> 5 [] c = "6" -> 6 [] c = "7" -> 7
      [] c = "8" -> 8 [] c = "9" -> 9

IsDigits(str) == Len(str) >= 1 /\ \A i \in 1..Len(str) : str[i] \in Digits

RECURSIVE ParseInt(_)
\* int() of a string of decimal digits
ParseInt(str) ==
    IF str = <<>> THEN 0
    ELSE 10 * ParseInt(SubSeq(str, 1, Len(str) - 1)) + DigitVal(str[Len(str)])

Max(S) == CHOOSE x \in S : \A y \in S : y <= x

----------------------------------------------------------------------------
(* pepXML reader: the pure parts of one loop iteration *)

\* position of the last "." of str at or before hi, 0 if there is none
LastDot(str, hi) ==
    LET ds == {i \in 1..hi : str[i] = "."}
    IN  IF ds = {} THEN 0 ELSE Max(ds)

NoMatch == [matched |-> FALSE, g1 |-> <<>>, g2 |-> <<>>, g3 |-> <<>>, g4 |-> <<>>]

\* re.match(r"(.+)\.(\d+)\.(\d+)\.(\d+)$", spectrum_name) with (.*) in
\* place of (.+)
ReMatch_EmptyRun(str) ==
    LET d3 == LastDot(str, Len(str))
        d2 == IF d3 > 0 THEN LastDot(str, d3 - 1) ELSE 0
        d1 == IF d2 > 0 THEN LastDot(str, d2 - 1) ELSE 0
    IN  IF /\ d1 >= 1
           /\ IsDigits(SubSeq(str, d1 + 1, d2 - 1))
           /\ IsDigits(SubSeq(str, d2 + 1, d3 - 1))
           /\ IsDigits(SubSeq(str, d3 + 1, Len(str)))
        THEN [matched |-> TRUE,
              g1 |-> SubSeq(str, 1, d1 - 1),
              g2 |-> SubSeq(str, d1 + 1, d2 - 1),
              g3 |-> SubSeq(str, d2 + 1, d3 - 1),
              g4 |-> SubSeq(str, d3 + 1, Len(str))]
        ELSE NoMatch

\* re.match(r"(.+)\.(\d+)\.(\d+)\.(\d+)$", spectrum_name): a digit group
\* holds no ".", so the three groups are the fields after the last three
\* dots and group 1 is the non-empty rest (which may itself hold dots)
ReMatch(str) ==
    LET d3 == LastDot(str, Len(str))
        d2 == IF d3 > 0 THEN LastDot(str, d3 - 1) ELSE 0
        d1 == IF d2 > 0 THEN LastDot(str, d2 - 1) ELSE 0
    IN  IF /\ d1 > 1
           /\ IsDigits(SubSeq(str, d1 + 1, d2 - 1))
           /\ IsDigits(SubSeq(str, d2 + 1, d3 - 1))
           /\ IsDigits(SubSeq(str, d3 + 1, Len(str)))
        THEN [matched |-> TRUE,
              g1 |-> SubSeq(str, 1, d1 - 1),
              g2 |-> SubSeq(str, d1 + 1, d2 - 1),
              g3 |-> SubSeq(str, d2 + 1, d3 - 1),
              g4 |-> SubSeq(str, d3 + 1, Len(str))]
        ELSE NoMatch

\* the charge test with the comparison dropped
ChargeDisagrees_Never(charge, m) == FALSE

\* int(charge) != int(match.group(4))
ChargeDisagrees(charge, m) == charge # ParseInt(m.g4)

\* scan_number converted with int()
ScanNumberOf_Int(m) == PyInt(ParseInt(m.g2))

\* scan_number = match.group(2)
ScanNumberOf(m) == PyStr(m.g2)

RECURSIVE CaptureProbability_First(_, _)
\* the loop over analysis_result keeping the first entry of the method
CaptureProbability_First(results, method) ==
    IF results = <<>> THEN PyNone
    ELSE IF results[1].analysis = method THEN PyFloat(results[1].probability)
    ELSE CaptureProbability_First(Tail(results), method)

RECURSIVE CaptureLoop(_, _, _)
\* for analysis_result in psm['search_hit'][0]['analysis_result']:
\*     if analysis_result['analysis'] == method:
\*         probability = analysis_result[method + '_result']['probability']
\* acc is the variable assigned by the loop body
CaptureLoop(results, method, acc) ==
    IF results = <<>> THEN acc
    ELSE CaptureLoop(Tail(results), method,
                     IF results[1].analysis = method
                     THEN PyFloat(results[1].probability)
                     ELSE acc)

\* the value of the probability variable after the loop, from its default
\* None
CaptureProbability(results, method) == CaptureLoop(results, method, PyNone)

\* --min_psm_probability, default 0.90
min_psm_probability == 90

\* keep derived from the probability threshold
Keep_Threshold(pp, threshold) == pp.t = "float" /\ pp.n >= threshold

\* keep = True
Keep(pp, threshold) == TRUE

column_name_list == <<"scan_number", "probability">>

----------------------------------------------------------------------------
(* Inputs *)

\* run01.00123.00123.2
Name_Scenario2 == <<"r","u","n","0","1",".","0","0","1","2","3",".",
                    "0","0","1","2","3",".","2">>
\* run01.00123.00123.3
Name_Scenario3 == <<"r","u","n","0","1",".","0","0","1","2","3",".",
                    "0","0","1","2","3",".","3">>
\* a.b.7.8.02  (run name with a dot, zero-padded charge)
Name_DottedRun == <<"a",".","b",".","7",".","8",".","0","2">>
\* run01.123.2  (three fields)
Name_ThreeFields == <<"r","u","n","0","1",".","1","2","3",".","2">>
\* .1.1.2  (empty run name)
Name_EmptyRun == <<".","1",".","1",".","2">>

SpectrumNames ==
    {Name_Scenario2, Name_Scenario3, Name_DottedRun, Name_ThreeFields,
     Name_EmptyRun}

Charges == {2, 3}

AnalysisEntries ==
    {[analysis |-> "peptideprophet", probability |-> 50],
     [analysis |-> "peptideprophet", probability |-> 95],
     [analysis |-> "interprophet", probability |-> 95]}

SeqsUpTo(S, n) == UNION {[1..k -> S] : k \in 0..n}

PsmRecords ==
    [spectrum : SpectrumNames,
     assumed_charge : Charges,
     analysis_result : SeqsUpTo(AnalysisEntries, MaxResults)]

Absent == [t |-> "absent", s |-> <<>>, n |-> 0]

PyArray(a) == [t |-> "array", s |-> a, n |-> 0]

\* 'm/z array' of a spectrum: absent, empty, or one peak
MzArrays == {Absent, PyArray(<<>>), PyArray(<<"p">>)}

\* ...['selectedIon'][0]['selected ion m/z']
SelectedIonMzs == {Absent, PyFloat(50012)}

\* ...['selectedIon'][0]['charge state']
ChargeStates == {Absent, PyInt(2), PyStr(<<"0", "3">>), PyStr(<<"x">>)}

SpectrumRecords ==
    [ms_level : {1}, mz_array : MzArrays,
     selected_ion_mz : {Absent}, charge : {Absent}]
    \cup
    [ms_level : {2}, mz_array : MzArrays,
     selected_ion_mz : SelectedIonMzs, charge : ChargeStates]

\* the loop variables before the first pull
NoPsm == [spectrum |-> <<>>, assumed_charge |-> 0, analysis_result |-> <<>>]

NoSpectrum == [ms_level |-> 0, mz_array |-> Absent,
               selected_ion_mz |-> Absent, charge |-> Absent]

ZeroStats == [n_spectra |-> 0, n_ms0_spectra |-> 0, n_ms1_spectra |-> 0,
              n_ms2_spectra |-> 0]

----------------------------------------------------------------------------
(* Initial state: the command line has been parsed *)

Init ==
    /\ program \in {"pepxml", "mzml"}
    /\ files \in IF program = "pepxml"
                 THEN [1..1 -> BOOLEAN]
                 ELSE UNION {[1..k -> BOOLEAN] : k \in 1..MaxFiles}
    /\ pc = IF program = "pepxml" THEN "main" ELSE "check"
    /\ exc = "none"
    /\ events = <<>>
    /\ infile = "unopened"
    /\ reader = "none"
    /\ psm = NoPsm
    /\ pulled = 0
    /\ rows = <<>>
    /\ psm_number = 0
    /\ n_psms = 0
    /\ peptideprophet_probability = PyNone
    /\ iprophet_probability = PyNone
    /\ out_file = <<>>
    /\ checked = 0
    /\ cur = 0
    /\ opened = <<>>
    /\ spectrum = NoSpectrum
    /\ levels = <<>>
    /\ stats = ZeroStats
    /\ charge_state = PyNone
    /\ precursor_mz = PyNone
    /\ summaries = <<>>

----------------------------------------------------------------------------
(* pepXML reader *)

\* main: os.path.isfile fails: print the error and return
PepMainMissing ==
    /\ program = "pepxml" /\ pc = "main"
    /\ ~files[1]
    /\ events' = Append(events, "NotFound")
    /\ pc' = "returned"
    /\ UNCHANGED <<program, files, exc, infile, reader>>
    /\ UNCHANGED pepVars
    /\ UNCHANGED mzVars

\* main: construct the reader; read_psms up to the first pull: stats, the
\* open of the stream, rows, psm_number, entry of the with block
PepOpen ==
    /\ program = "pepxml" /\ pc = "main"
    /\ files[1]
    /\ infile' = "open"
    /\ reader' = "open"
    /\ rows' = <<>>
    /\ psm_number' = 0
    /\ n_psms' = 0
    /\ pc' = "iter"
    /\ UNCHANGED <<program, files, exc, events, psm, pulled,
                   peptideprophet_probability, iprophet_probability, out_file>>
    /\ UNCHANGED mzVars

\* one iteration of "for psm in reader"
PepNextPsm(p) ==
    /\ program = "pepxml" /\ pc = "iter"
    /\ pulled < MaxPsms
    /\ psm' = p
    /\ pulled' = pulled + 1
    /\ LET m == ReMatch(p.spectrum)
       IN  IF ~m.matched
           THEN \* print ERROR: Failed to parse spectrum name; exit()
                /\ events' = Append(events, "NameFormat")
                /\ exc' = "SystemExit"
                /\ reader' = "closed"
                /\ pc' = "exited"
                /\ peptideprophet_probability' = PyNone
                /\ iprophet_probability' = PyNone
                /\ UNCHANGED <<rows, psm_number, n_psms>>
           ELSE IF ChargeDisagrees(p.assumed_charge, m)
           THEN \* print ERROR: Charge in spectrum name ...; exit()
                /\ events' = Append(events, "ChargeMismatch")
                /\ exc' = "SystemExit"
                /\ reader' = "closed"
                /\ pc' = "exited"
                /\ peptideprophet_probability' = PyNone
                /\ iprophet_probability' = PyNone
                /\ UNCHANGED <<rows, psm_number, n_psms>>
           ELSE LET pp == CaptureProbability(p.analysis_result,
                                             "peptideprophet")
                    ip == CaptureProbability(p.analysis_result,
                                             "interprophet")
                    keep == Keep(pp, min_psm_probability)
                IN  /\ peptideprophet_probability' = pp
                    /\ iprophet_probability' = ip
                    /\ psm_number' = IF keep THEN psm_number + 1
                                     ELSE psm_number
                    /\ rows' = IF keep
                               THEN Append(rows,
                                      [scan_number |-> ScanNumberOf(m),
                                       probability |-> pp])
                               ELSE rows
                    /\ n_psms' = n_psms + 1
                    /\ UNCHANGED <<events, exc, reader, pc>>
    /\ UNCHANGED <<program, files, infile, out_file>>
    /\ UNCHANGED mzVars

\* the reader is exhausted: leave the with block, infile.close(), the final
\* lines, the data frame and to_csv
PepStop ==
    /\ program = "pepxml" /\ pc = "iter"
    /\ reader' = "closed"
    /\ infile' = "closed"
    /\ events' = Append(events, "Summary")
    /\ out_file' = Append(out_file, [columns |-> column_name_list,
                                     data |-> rows])
    /\ pc' = "done"
    /\ UNCHANGED <<program, files, exc, psm, pulled, rows, psm_number, n_psms,
                   peptideprophet_probability, iprophet_probability>>
    /\ UNCHANGED mzVars

\* the decoder raises while a record is pulled: nothing catches it
PepDecoderFault ==
    /\ program = "pepxml" /\ pc = "iter"
    /\ exc' = "DecoderFault"
    /\ reader' = "closed"
    /\ pc' = "crashed"
    /\ UNCHANGED <<program, files, events, infile>>
    /\ UNCHANGED pepVars
    /\ UNCHANGED mzVars

----------------------------------------------------------------------------
(* mzML reader *)

\* the first loop of main has covered the first path only
AllChecked_FirstOnly(n, fs) == n >= 1

\* the first loop of main has covered every path
AllChecked(n, fs) == n = Len(fs)

\* first loop of main, one path that is a file
MzCheckFile ==
    /\ program = "mzml" /\ pc = "check"
    /\ ~AllChecked(checked, files)
    /\ files[checked + 1]
    /\ checked' = checked + 1
    /\ pc' = IF AllChecked(checked + 1, files) THEN "process" ELSE "check"
    /\ UNCHANGED <<program, files, exc, events, infile, reader>>
    /\ UNCHANGED pepVars
    /\ UNCHANGED <<cur, opened, spectrum, levels, stats, charge_state,
                   precursor_mz, summaries>>

\* first loop of main, a path that is not a file: print the error, return
MzCheckMissing ==
    /\ program = "mzml" /\ pc = "check"
    /\ ~AllChecked(checked, files)
    /\ ~files[checked + 1]
    /\ events' = Append(events, "NotFound")
    /\ pc' = "returned"
    /\ UNCHANGED <<program, files, exc, infile, reader>>
    /\ UNCHANGED pepVars
    /\ UNCHANGED mzVars

\* second loop of main, next file: construct the reader; read_spectra up to
\* the first pull.  open() of a path that is not there raises.
MzOpen ==
    /\ program = "mzml" /\ pc = "process"
    /\ cur < Len(files)
    /\ cur' = cur + 1
    /\ stats' = ZeroStats
    /\ spectrum' = NoSpectrum
    /\ levels' = <<>>
    /\ IF files[cur + 1]
       THEN /\ infile' = "open"
            /\ reader' = "open"
            /\ opened' = Append(opened, cur + 1)
            /\ pc' = "iter"
            /\ exc' = exc
       ELSE /\ exc' = "FileNotFoundError"
            /\ pc' = "crashed"
            /\ UNCHANGED <<infile, reader, opened>>
    /\ UNCHANGED <<program, files, events, checked, charge_state,
                   precursor_mz, summaries>>
    /\ UNCHANGED pepVars

\* int(...['charge state']) inside try / bare except
ChargeOf(c) ==
    IF c.t = "int" THEN PyInt(c.n)
    ELSE IF c.t = "str" /\ IsDigits(c.s) THEN PyInt(ParseInt(c.s))
    ELSE PyStr(<<"u", "n", "k", "n", "o", "w", "n">>)

\* one iteration of "for spectrum in reader"
MzNextSpectrum(sp) ==
    /\ program = "mzml" /\ pc = "iter"
    /\ Len(levels) < MaxSpectra
    /\ spectrum' = sp
    /\ levels' = Append(levels, sp.ms_level)
    /\ IF sp.ms_level = 2 /\ sp.mz_array.t # "absent"
       THEN IF sp.selected_ion_mz.t = "absent"
            THEN \* the lookup of 'selected ion m/z' is outside the try
                 /\ exc' = "KeyError"
                 /\ reader' = "closed"
                 /\ pc' = "crashed"
                 /\ UNCHANGED <<stats, charge_state, precursor_mz>>
            ELSE /\ precursor_mz' = sp.selected_ion_mz
                 /\ charge_state' = ChargeOf(sp.charge)
                 /\ stats' = [stats EXCEPT !.n_spectra = @ + 1]
                 /\ UNCHANGED <<exc, reader, pc>>
       ELSE /\ stats' = [stats EXCEPT !.n_spectra = @ + 1]
            /\ UNCHANGED <<exc, reader, pc, charge_state, precursor_mz>>
    /\ UNCHANGED <<program, files, events, infile, checked, cur, opened,
                   summaries>>
    /\ UNCHANGED pepVars

\* the reader is exhausted: leave the with block, infile.close(), the final
\* line; back in main, the next file or the end
MzStop ==
    /\ program = "mzml" /\ pc = "iter"
    /\ reader' = "closed"
    /\ infile' = "closed"
    /\ events' = Append(events, "Summary")
    /\ summaries' = Append(summaries, stats.n_spectra)
    /\ pc' = IF cur = Len(files) THEN "done" ELSE "process"
    /\ UNCHANGED <<program, files, exc, checked, cur, opened, spectrum,
                   levels, stats, charge_state, precursor_mz>>
    /\ UNCHANGED pepVars

\* the decoder raises while a record is pulled: the handler is the else
\* branch of "if True", so nothing catches it and nothing is logged
MzDecoderFault ==
    /\ program = "mzml" /\ pc = "iter"
    /\ exc' = "DecoderFault"
    /\ reader' = "closed"
    /\ pc' = "crashed"
    /\ UNCHANGED <<program, files, events, infile>>
    /\ UNCHANGED pepVars
    /\ UNCHANGED mzVars

----------------------------------------------------------------------------

Next ==
    \/ PepMainMissing
    \/ PepOpen
    \/ \E p \in PsmRecords : PepNextPsm(p)
    \/ PepStop
    \/ PepDecoderFault
    \/ MzCheckFile
    \/ MzCheckMissing
    \/ MzOpen
    \/ \E sp \in SpectrumRecords : MzNextSpectrum(sp)
    \/ MzStop
    \/ MzDecoderFault

Spec == Init /\ [][Next]_vars

----------------------------------------------------------------------------
(* The name grammar <run_name>.<digits>.<digits>.<digits>, stated on its   *)
(* own: the positions of the three separating dots                         *)

DotsOf(str) == {i \in 1..Len(str) : str[i] = "."}

Splits(str) ==
    {t \in DotsOf(str) \X DotsOf(str) \X DotsOf(str) :
        /\ 1 < t[1] /\ t[1] < t[2] /\ t[2] < t[3]
        /\ IsDigits(SubSeq(str, t[1] + 1, t[2] - 1))
        /\ IsDigits(SubSeq(str, t[2] + 1, t[3] - 1))
        /\ IsDigits(SubSeq(str, t[3] + 1, Len(str)))}

\* the decomposition of every name the record source can yield, by the
\* grammar: ok, the second field as written, its integer value, and the
\* integer value of the fourth field
NameInfo ==
    [nm \in SpectrumNames |->
        IF Splits(nm) = {}
        THEN [ok |-> FALSE, scan |-> <<>>, scanval |-> 0, charge |-> 0]
        ELSE LET t == CHOOSE u \in Splits(nm) : TRUE
             IN  [ok |-> TRUE,
                  scan |-> SubSeq(nm, t[1] + 1, t[2] - 1),
                  scanval |-> ParseInt(SubSeq(nm, t[1] + 1, t[2] - 1)),
                  charge |-> ParseInt(SubSeq(nm, t[3] + 1, Len(nm)))]]

InGrammar(str) == NameInfo[str].ok

\* second field of the grammar, as written in the name
NameScan(str) == NameInfo[str].scan

\* second field of the grammar, as an integer
NameScanValue(str) == NameInfo[str].scanval

\* fourth field of the grammar, as an integer
NameCharge(str) == NameInfo[str].charge

ChargeMismatched(rec) ==
    InGrammar(rec.spectrum) /\ NameCharge(rec.spectrum) # rec.assumed_charge

ValidPsm(rec) ==
    InGrammar(rec.spectrum) /\ NameCharge(rec.spectrum) = rec.assumed_charge

LastEvent == IF events = <<>> THEN "none" ELSE events[Len(events)]

MethodAt(results, method) ==
    {j \in 1..Len(results) : results[j].analysis = method}

Min(S) == CHOOSE x \in S : \A y \in S : x <= y

----------------------------------------------------------------------------
(* Claims *)

\* the row the loop body added last
LastRow == rows[Len(rows)]

\* C1: a PSM whose charge decoded from the fourth field of the spectrum name
\* differs from assumed_charge ends the run at that record with the
\* charge-mismatch error: no row is added for it, nothing runs after it, and
\* <input>.tsv is never written, however many rows are buffered.
C1_ChargeMismatchHalts ==
    (program = "pepxml" /\ pulled > 0 /\ ChargeMismatched(psm)) =>
        /\ pc = "exited"
        /\ exc = "SystemExit"
        /\ LastEvent = "ChargeMismatch"
        /\ Len(rows) = pulled - 1
        /\ n_psms = pulled - 1
        /\ out_file = <<>>
        /\ ~ENABLED Next

C1_Witness ==
    /\ program = "pepxml" /\ pc = "exited"
    /\ LastEvent = "ChargeMismatch"
    /\ Len(rows) >= 1
    /\ psm.spectrum = Name_Scenario3 /\ psm.assumed_charge = 2
    /\ out_file = <<>>

\* C2: a PSM whose spectrum name is outside the four-field grammar is never
\* skipped: it ends the run with the name-format error, no row is added for
\* it, nothing runs after it, and the table is never written.
C2_NameFormatHalts ==
    (program = "pepxml" /\ pulled > 0 /\ ~InGrammar(psm.spectrum)) =>
        /\ pc = "exited"
        /\ exc = "SystemExit"
        /\ LastEvent = "NameFormat"
        /\ Len(rows) = pulled - 1
        /\ n_psms = pulled - 1
        /\ out_file = <<>>
        /\ ~ENABLED Next

C2_Witness ==
    /\ program = "pepxml" /\ pc = "exited"
    /\ LastEvent = "NameFormat"
    /\ pulled >= 2
    /\ ~InGrammar(psm.spectrum)
    /\ out_file = <<>>

ScanValue(v) == IF v.t = "int" THEN v.n ELSE ParseInt(v.s)

\* the records pulled that passed name decomposition and charge validation:
\* a record that fails either is the last one pulled
ValidPulled == IF pulled > 0 /\ ~ValidPsm(psm) THEN pulled - 1 ELSE pulled

C4_Counts ==
    program = "pepxml" =>
        /\ Len(rows) = ValidPulled
        /\ psm_number = ValidPulled
        /\ n_psms = ValidPulled
        /\ pc = "done" =>
               /\ Len(out_file) = 1
               /\ out_file[1].columns = <<"scan_number", "probability">>
               /\ out_file[1].data = rows
               /\ Len(out_file[1].data) = pulled

C4_Step ==
    IF pulled' = pulled + 1 /\ ValidPsm(psm')
    THEN /\ Len(rows') = Len(rows) + 1
         /\ SubSeq(rows', 1, Len(rows)) = rows
         /\ ScanValue(rows'[Len(rows')].scan_number)
                = NameScanValue(psm'.spectrum)
    ELSE rows' = rows

C5_ScanNumberIsInteger ==
    (program = "pepxml" /\ pulled > 0 /\ ValidPsm(psm)) =>
        /\ Len(rows) = pulled
        /\ LastRow.scan_number = PyInt(NameScanValue(psm.spectrum))

\* C5 amended: the scan_number of an emitted row is the digit string of the
\* second field of the spectrum name exactly as written there, leading zeros
\* kept: run01.00123.00123.2 with assumed_charge 2 gives the row
\* ["00123", probability].
C5_ScanNumberIsRawString ==
    (program = "pepxml" /\ pulled > 0 /\ ValidPsm(psm)) =>
        /\ Len(rows) = pulled
        /\ LastRow.scan_number = PyStr(NameScan(psm.spectrum))

C5_Witness ==
    /\ program = "pepxml"
    /\ Len(rows) >= 1
    /\ psm.spectrum = Name_Scenario2
    /\ psm.assumed_charge = 2
    /\ LastRow.scan_number = PyStr(<<"0", "0", "1", "2", "3">>)

\* C6: in the mzML main, every path of the batch is checked before any file
\* is opened: with a missing path at any position the error is reported and
\* nothing is opened or processed; otherwise the files are opened one after
\* another in argument order, each after the previous one was finished and
\* with counters that count from zero.
C6_CheckBeforeProcess ==
    program = "mzml" =>
        /\ (opened # <<>> \/ infile # "unopened" \/ cur > 0) =>
               /\ checked = Len(files)
               /\ \A i \in 1..Len(files) : files[i]
        /\ (\E i \in 1..Len(files) : ~files[i]) =>
               /\ opened = <<>> /\ infile = "unopened" /\ exc = "none"
               /\ pc \in {"check", "returned"}
        /\ pc = "returned" => LastEvent = "NotFound"
        /\ \A i \in 1..Len(opened) : opened[i] = i
        /\ Len(opened) = cur
        /\ pc = "iter" =>
               /\ Len(summaries) = cur - 1
               /\ stats.n_spectra = Len(levels)
        /\ pc = "done" => Len(summaries) = Len(files)

C6_Witness ==
    /\ program = "mzml"
    /\ Len(files) = 2 /\ files[1] /\ ~files[2]
    /\ pc = "returned"
    /\ checked = 1
    /\ opened = <<>>

LevelCount(l) == Cardinality({i \in 1..Len(levels) : levels[i] = l})

\* C7: every spectrum record pulled, whatever its level, adds one to the
\* total counter and one to the counter of its level, so n_ms2_spectra is the
\* number of level-2 records and the per-level counters sum to n_spectra.
C7_PerLevelCounters ==
    program = "mzml" =>
        /\ stats.n_spectra = Len(levels)
        /\ stats.n_ms1_spectra = LevelCount(1)
        /\ stats.n_ms2_spectra = LevelCount(2)
        /\ stats.n_ms0_spectra + stats.n_ms1_spectra + stats.n_ms2_spectra
               = stats.n_spectra

Unknown == PyStr(<<"u","n","k","n","o","w","n">>)

NumericCharge(c) == c.t = "int" \/ (c.t = "str" /\ IsDigits(c.s))

\* C8: for a level-2 record with an m/z array the extraction never raises:
\* the record is counted, and an absent or non-numeric charge state is
\* recorded as 'unknown'.
C8_ExtractionNeverRaises ==
    (program = "mzml" /\ levels # <<>>
        /\ spectrum.ms_level = 2 /\ spectrum.mz_array.t # "absent") =>
            /\ exc # "KeyError"
            /\ stats.n_spectra = Len(levels)
            /\ ~NumericCharge(spectrum.charge) => charge_state = Unknown

\* C9: in both readers no terminal state has the opened stream still open.
C9_StreamClosedOnEveryExit ==
    (pc \in {"done", "exited", "crashed", "returned"}
        /\ infile # "unopened") => infile = "closed"

\* C10: a decoder fault while spectra are pulled is reported as the
\* 'MzMLCorrupt' error event.
C10_DecoderFaultReported ==
    (program = "mzml" /\ exc = "DecoderFault") => LastEvent = "MzMLCorrupt"

====
